---- MODULE Spec2Model ----
(***************************************************************************)
(* Model of TelethonManager (src/telethon_client/manager.py): the per-user *)
(* login handshake (send_login_code, confirm_login_code) and the           *)
(* connection lifecycle (create_client, disconnect_user), together with    *)
(* the users table of src/database/db.py.                                  *)
(*                                                                         *)
(* The manager's methods are asyncio coroutines.  A coroutine runs         *)
(* atomically from one await to the next, so every action below is one     *)
(* such segment of one call; `tasks` holds the calls in flight together    *)
(* with their local variables and the await they are suspended at.         *)
(***************************************************************************)
EXTENDS Integers, Sequences, FiniteSets

\* ---- bounds of the model ------------------------------------------------
MaxTasks == 2
MaxCalls == 4
MaxRaceCalls == 3
MaxPairCalls == 3
MaxTextLen == 3
MaxMessages == 1

Users == {"u1", "u2"}
Phones == {"p1", "p2"}
Tasks == 1..MaxTasks

\* The users whose calls the specifications below explore.
Callers == {"u1"}

\* Python's None, for strings, connection ids and tokens.
None == "None"
NoClient == 0
NoHash == 0

Codes == {"good", "bad"}
Passwords == {"good", "bad"}

VARIABLES
    clients,            \* self.clients: user -> connection id (NoClient: absent)
    pending_phones,     \* self.pending_phones: user -> phone (None: absent)
    pending_code_hash,  \* self.pending_code_hash: user -> token (NoHash: absent)
    conns,              \* every TelegramClient object created so far
    issued,             \* remote network: issued[k] is the phone token k was issued for
    sessions,           \* session file user_<id>.session of each user
    users,              \* users table: is_telethon_connected of each user's row
    tasks,              \* the coroutine calls in flight
    returned,           \* the call the last step returned from, and its result
    calls,              \* the number of calls made so far
    fsm,                \* front end: FSM state and data of each user, and the handler running
    manager_bot,        \* self.bot of the manager (None: not set)
    event,              \* the handle_message call in flight, with its locals
    handled,            \* the handle_message call the last step returned from
    detected_messages,  \* table detected_messages: the rows inserted
    notifications,      \* the 'meeting detected' messages the bot has sent
    arrived,            \* the number of incoming messages so far
    disconnected        \* history: the users disconnected and not sent a code since

\* The incoming-message side.
mvars == <<manager_bot, event, handled, detected_messages, notifications, arrived>>

vars == <<clients, pending_phones, pending_code_hash, conns, issued, sessions,
          users, tasks, returned, calls, fsm, mvars, disconnected>>

\* ---- values ---------------------------------------------------------------
NoRet == [ok |-> FALSE, need_password |-> FALSE, error |-> None]

Ret(ok, need, err) == [ok |-> ok, need_password |-> need, error |-> err]

\* No call, as the call another call directly follows.
NoCall == [op |-> None, hash |-> NoHash, rsp |-> None, ok |-> FALSE]

IdleTask == [op |-> None, user |-> None, pc |-> "idle", phone |-> None,
             code |-> None, password |-> None, client |-> NoClient,
             created |-> FALSE, hash |-> NoHash, rsp |-> None, after |-> NoCall,
             todo |-> << >>, shutdown |-> 0, silent |-> FALSE]

NoReturn == [op |-> None, user |-> None, hash |-> NoHash, rsp |-> None, ret |-> NoRet,
             after |-> NoCall]

ConnIds == 1..Len(conns)

\* A call for user u, or a cleanup (which is for every user), is in flight.
Busy(u) ==
    \E t \in Tasks : tasks[t].pc # "idle" /\ (tasks[t].user = u \/ tasks[t].op = "cleanup")

\* A new call takes the first free slot of `tasks`.
FreeSlot(t) == tasks[t].pc = "idle" /\ \A s \in 1..(t - 1) : tasks[s].pc # "idle"

\* A call is made: the model explores MaxCalls calls.
NewCall == calls < MaxCalls /\ calls' = calls + 1

\* The call `rec` in slot t suspends at an await (rec.pc).
Suspend(t, rec) ==
    /\ tasks' = [tasks EXCEPT ![t] = rec]
    /\ returned' = NoReturn

\* The call `rec` in slot t returns `ret`; rsp is the remote network's last
\* answer to it (None when the call made no remote call), hash the token a
\* send_login_code obtained, after the call of the same user it directly
\* followed.  When a cleanup returns, the calls still in flight note the
\* number of calls made so far (shutdown; 0: no cleanup has returned during
\* the call).
Finish(t, rec, rsp, ret) ==
    /\ tasks' = [x \in Tasks |->
                    IF x = t THEN IdleTask
                    ELSE IF rec.op = "cleanup" /\ tasks[x].pc # "idle"
                         THEN [tasks[x] EXCEPT !.shutdown = calls']
                         ELSE tasks[x]]
    /\ returned' = [op |-> IF rec.op = "confirm_login_code" /\ rec.code = None
                            THEN (IF rec.password # None THEN "confirm_password"
                                  ELSE "confirm_nothing")
                            ELSE rec.op,
                    user |-> rec.user,
                    hash |-> IF rec.op = "send_login_code" THEN rec.hash ELSE NoHash,
                    rsp |-> rsp, ret |-> ret, after |-> rec.after]

\* The call of user u that has just returned, if the last step returned one.
JustReturned(u) ==
    IF returned.user = u \/ returned.op = "cleanup"
    THEN [op |-> returned.op, hash |-> returned.hash, rsp |-> returned.rsp,
          ok |-> returned.ret.ok]
    ELSE NoCall

\* ---- the remote network and the Telethon library ---------------------------
\* Accounts with a second factor (cloud password).
HasTwoFA(phone) == phone = "p2"

\* client.connect(): succeeds or raises.
ConnectOutcomes == {"ok", "fail"}

\* client.is_user_authorized(): answers from the session's state, or raises.
IsAuthorizedOutcomes == {"answer", "fail"}

\* client.disconnect(): succeeds or raises.
DisconnectOutcomes == {"ok", "fail"}

\* client.send_code_request(phone): a token, or PhoneNumberInvalidError,
\* FloodWaitError, or any other exception; a closed connection cannot send.
AllSendCodeOutcomes == {"ok", "invalid_phone", "flood", "error"}

SendCodeOutcomes(c) == IF conns[c].open THEN AllSendCodeOutcomes ELSE {"error"}

\* Exceptions that are none of the three typed ones confirm_login_code
\* catches; they differ in what their message contains: the word 'expired',
\* the word 'invalid', some other text, or nothing (str(e) = '', as for an
\* exception raised without arguments).
GenericErrors == {"err_expired", "err_invalid", "err_other", "err_empty"}

\* str(e) of an exception with an empty message.
EmptyMessage == ""

AllSignInOutcomes ==
    {"ok", "need_password", "invalid", "expired", "wrong_password"} \cup GenericErrors

\* client.sign_in(phone, code, phone_code_hash) or client.sign_in(password).
\* A closed connection cannot send; an authorized client returns the
\* logged-in user at once; a code is accepted with the token issued for the
\* phone; a password is accepted once the code was.
SignInOutcomes(c, phone, code, hash, password) ==
    IF ~conns[c].open THEN {"err_other"}
    ELSE IF conns[c].st = "auth" THEN {"ok", "err_other"}
    ELSE IF code # None
         THEN (IF hash # NoHash /\ issued[hash] = phone /\ code = "good"
               THEN {IF HasTwoFA(phone) THEN "need_password" ELSE "ok", "expired"}
               ELSE {"invalid", "expired"}) \cup GenericErrors
         ELSE (IF conns[c].st = "pwd"
               THEN {IF password = "good" THEN "ok" ELSE "wrong_password"}
               ELSE {"err_other"}) \cup GenericErrors

\* str(e).lower() of an exception that reached `except Exception`:
\* what the message contains.
MsgHasExpired(rsp) == rsp = "err_expired"

\* A wrong password raises PasswordHashInvalidError, which no typed handler
\* catches and whose message says the password 'is invalid'.
MsgHasInvalid(rsp) == rsp \in {"err_invalid", "wrong_password"}

\* ---- database/db.py ---------------------------------------------------------
\* A slip: the UPDATE without its WHERE clause.
update_telethon_status_AllRows(u, connected) ==
    users' = [x \in Users |-> IF users[x] = "absent" THEN "absent"
                              ELSE IF connected THEN "connected" ELSE "disconnected"]

\* UPDATE users SET is_telethon_connected = ? WHERE telegram_id = ?
update_telethon_status(u, connected) ==
    users' = [users EXCEPT ![u] = IF users[u] = "absent" THEN "absent"
                                  ELSE IF connected THEN "connected" ELSE "disconnected"]

\* INSERT OR REPLACE INTO users (...): the replaced row gets the column
\* default is_telethon_connected = FALSE.
add_user(u) ==
    /\ users' = [users EXCEPT ![u] = "disconnected"]
    /\ returned' = NoReturn
    /\ UNCHANGED <<clients, pending_phones, pending_code_hash, conns, issued,
                   sessions, tasks, calls>>

\* ---- create_client ------------------------------------------------------------
\* TelegramClient(session_path, ...): a new, not yet connected client; it is
\* authorized from the start when the session file holds an authorized session.
NewClient(u) ==
    [owner |-> u, open |-> FALSE,
     st |-> IF sessions[u] = "auth" THEN "auth" ELSE "fresh", listeners |-> 0]

\* The constructor creates the session file when there is none.
TouchSession(u) ==
    sessions' = [sessions EXCEPT ![u] = IF sessions[u] = "none" THEN "unauth" ELSE sessions[u]]

\* A slip: the handler is attached in both branches.
RegisterClient_AlwaysListens(u, c) ==
    /\ clients' = [clients EXCEPT ![u] = c]
    /\ conns' = [conns EXCEPT ![c].listeners = conns[c].listeners + 1]

\* create_client after is_user_authorized answered: register the client and,
\* for an authorized one, attach the NewMessage handler.
RegisterClient(u, c) ==
    /\ clients' = [clients EXCEPT ![u] = c]
    /\ conns' = [conns EXCEPT ![c].listeners =
                    IF conns[c].st = "auth" THEN conns[c].listeners + 1 ELSE conns[c].listeners]

\* ---- send_login_code ----------------------------------------------------------
\* "ذخیره شماره موقت" and the first send_code_request.
StorePhoneAndSend(t, rec) ==
    /\ pending_phones' = [pending_phones EXCEPT ![rec.user] = rec.phone]
    /\ Suspend(t, [rec EXCEPT !.pc = "send1"])

\* A slip: the phone is stored before the reconnect.
EnsureConnectedThenSend_StoresPhoneFirst(t, rec, open) ==
    IF open THEN StorePhoneAndSend(t, rec)
    ELSE /\ Suspend(t, [rec EXCEPT !.pc = "reconnect"])
         /\ pending_phones' = [pending_phones EXCEPT ![rec.user] = rec.phone]

\* "اطمینان از اتصال": reconnect a closed client before sending.
EnsureConnectedThenSend(t, rec, open) ==
    IF open THEN StorePhoneAndSend(t, rec)
    ELSE /\ Suspend(t, [rec EXCEPT !.pc = "reconnect"])
         /\ UNCHANGED pending_phones

\* The call up to its first await.  The front end saves the user's row
\* (add_user) before it requests a code.
StartSendLoginCode(t, u, p) ==
    /\ FreeSlot(t)
    /\ NewCall
    /\ users[u] # "absent"
    /\ LET rec == [IdleTask EXCEPT !.op = "send_login_code", !.user = u, !.phone = p,
                                  !.after = JustReturned(u)] IN
       IF clients[u] = NoClient
       THEN /\ conns' = Append(conns, NewClient(u))
            /\ TouchSession(u)
            /\ Suspend(t, [rec EXCEPT !.client = Len(conns) + 1, !.created = TRUE,
                                      !.pc = "cc_connect"])
            /\ UNCHANGED <<clients, pending_phones, pending_code_hash, issued, users>>
       ELSE /\ EnsureConnectedThenSend(t, [rec EXCEPT !.client = clients[u]],
                                       conns[clients[u]].open)
            /\ UNCHANGED <<clients, pending_code_hash, conns, issued, sessions, users>>

\* create_client: await client.connect() returns or raises.
CreateClientConnected(t, out) ==
    /\ UNCHANGED calls
    /\ tasks[t].op \in {"send_login_code", "start_monitoring"} /\ tasks[t].pc = "cc_connect"
    /\ out \in ConnectOutcomes
    /\ IF out = "ok"
       THEN /\ conns' = [conns EXCEPT ![tasks[t].client].open = TRUE]
            /\ Suspend(t, [tasks[t] EXCEPT !.pc = "cc_auth"])
       ELSE /\ Finish(t, tasks[t], out, Ret(FALSE, FALSE, None))
            /\ UNCHANGED conns
    /\ UNCHANGED <<clients, pending_phones, pending_code_hash, issued, sessions, users>>

\* create_client: await client.is_user_authorized() returns or raises; then
\* back in send_login_code up to the first send_code_request, or back in
\* start_monitoring up to its own is_user_authorized.
CreateClientAuthorized(t, out) ==
    /\ UNCHANGED calls
    /\ tasks[t].op \in {"send_login_code", "start_monitoring"} /\ tasks[t].pc = "cc_auth"
    /\ out \in IsAuthorizedOutcomes
    /\ LET c == tasks[t].client  u == tasks[t].user IN
       IF out = "answer"
       THEN /\ RegisterClient(u, c)
            /\ IF tasks[t].op = "send_login_code"
               THEN EnsureConnectedThenSend(t, tasks[t], conns[c].open)
               ELSE /\ Suspend(t, [tasks[t] EXCEPT !.pc = "sm_auth"])
                    /\ UNCHANGED pending_phones
       ELSE /\ Finish(t, tasks[t], out, Ret(FALSE, FALSE, None))
            /\ UNCHANGED <<clients, conns, pending_phones>>
    /\ UNCHANGED <<pending_code_hash, issued, sessions, users>>

\* send_login_code: await client.connect() of a closed client returns or raises.
SendLoginCodeReconnected(t, out) ==
    /\ UNCHANGED calls
    /\ tasks[t].op = "send_login_code" /\ tasks[t].pc = "reconnect"
    /\ out \in ConnectOutcomes
    /\ IF out = "ok"
       THEN /\ conns' = [conns EXCEPT ![tasks[t].client].open = TRUE]
            /\ StorePhoneAndSend(t, tasks[t])
       ELSE /\ Finish(t, tasks[t], out, Ret(FALSE, FALSE, None))
            /\ UNCHANGED <<conns, pending_phones>>
    /\ UNCHANGED <<clients, pending_code_hash, issued, sessions, users>>

\* "ذخیره phone_code_hash": the remote network issued a new token.
StoreCodeHash(t) ==
    /\ issued' = Append(issued, tasks[t].phone)
    /\ pending_code_hash' = [pending_code_hash EXCEPT ![tasks[t].user] = Len(issued) + 1]
    /\ Finish(t, [tasks[t] EXCEPT !.hash = Len(issued) + 1], "ok", Ret(TRUE, FALSE, None))

\* The first send_code_request returns or raises; the inner handler catches
\* every exception and sends the request again.
SendCodeReturned(t, out) ==
    /\ UNCHANGED calls
    /\ tasks[t].op = "send_login_code" /\ tasks[t].pc = "send1"
    /\ out \in SendCodeOutcomes(tasks[t].client)
    /\ IF out = "ok"
       THEN StoreCodeHash(t)
       ELSE /\ Suspend(t, [tasks[t] EXCEPT !.pc = "send2", !.rsp = out])
            /\ UNCHANGED <<issued, pending_code_hash>>
    /\ UNCHANGED <<clients, pending_phones, conns, sessions, users>>

\* The second send_code_request returns or raises; the outer handlers return False.
SendCodeRetried(t, out) ==
    /\ UNCHANGED calls
    /\ tasks[t].op = "send_login_code" /\ tasks[t].pc = "send2"
    /\ out \in SendCodeOutcomes(tasks[t].client)
    /\ IF out = "ok"
       THEN StoreCodeHash(t)
       ELSE /\ Finish(t, tasks[t], out, Ret(FALSE, FALSE, None))
            /\ UNCHANGED <<issued, pending_code_hash>>
    /\ UNCHANGED <<clients, pending_phones, conns, sessions, users>>

\* ---- confirm_login_code -------------------------------------------------------
\* A slip: a message with 'invalid' is taken for an expired code.
ClassifyError_InvalidAsExpired(rsp) ==
    IF MsgHasExpired(rsp) \/ MsgHasInvalid(rsp) THEN "code_expired"
    ELSE IF rsp = "err_empty" THEN EmptyMessage
    ELSE "unexpected"

\* The error returned for an exception that reached `except Exception`:
\* decided by the words in its message, else the message itself, str(e).
ClassifyError(rsp) ==
    IF MsgHasExpired(rsp) THEN "code_expired"
    ELSE IF MsgHasInvalid(rsp) THEN "invalid_code"
    ELSE IF rsp = "err_empty" THEN EmptyMessage
    ELSE "unexpected"

\* A slip: the check of the stored token is left out.
StartConfirmLoginCode_NoHashCheck(t, u, code, password) ==
    /\ FreeSlot(t)
    /\ NewCall
    /\ code = None \/ password = None
    /\ LET rec == [IdleTask EXCEPT !.op = "confirm_login_code", !.user = u, !.code = code,
                                  !.password = password, !.client = clients[u],
                                  !.phone = pending_phones[u],
                                  !.hash = pending_code_hash[u], !.pc = "start",
                                  !.after = JustReturned(u)]
       IN
       IF clients[u] = NoClient
       THEN Finish(t, rec, None, Ret(FALSE, FALSE, "client_not_found"))
       ELSE IF pending_phones[u] = None
       THEN Finish(t, rec, None, Ret(FALSE, FALSE, "no_pending_phone"))
       ELSE IF ~conns[clients[u]].open
       THEN Suspend(t, [rec EXCEPT !.pc = "reconnect"])
       ELSE IF code # None \/ password # None
       THEN Suspend(t, [rec EXCEPT !.pc = "sign_in"])
       ELSE Finish(t, rec, None, Ret(FALSE, FALSE, "missing_code_or_password"))
    /\ UNCHANGED <<clients, pending_phones, pending_code_hash, conns, issued, sessions, users>>

\* The call up to its first await: the three precondition checks, then the
\* reconnect of a closed client or the sign_in itself.
StartConfirmLoginCode(t, u, code, password) ==
    /\ FreeSlot(t)
    /\ NewCall
    /\ code = None \/ password = None
    /\ LET rec == [IdleTask EXCEPT !.op = "confirm_login_code", !.user = u, !.code = code,
                                  !.password = password, !.client = clients[u],
                                  !.phone = pending_phones[u],
                                  !.hash = pending_code_hash[u], !.pc = "start",
                                  !.after = JustReturned(u)]
       IN
       IF clients[u] = NoClient
       THEN Finish(t, rec, None, Ret(FALSE, FALSE, "client_not_found"))
       ELSE IF pending_phones[u] = None
       THEN Finish(t, rec, None, Ret(FALSE, FALSE, "no_pending_phone"))
       ELSE IF pending_code_hash[u] = NoHash /\ code # None
       THEN Finish(t, rec, None, Ret(FALSE, FALSE, "no_code_hash"))
       ELSE IF ~conns[clients[u]].open
       THEN Suspend(t, [rec EXCEPT !.pc = "reconnect"])
       ELSE IF code # None \/ password # None
       THEN Suspend(t, [rec EXCEPT !.pc = "sign_in"])
       ELSE Finish(t, rec, None, Ret(FALSE, FALSE, "missing_code_or_password"))
    /\ UNCHANGED <<clients, pending_phones, pending_code_hash, conns, issued, sessions, users>>

\* await client.connect() of a closed client returns or raises.
ConfirmReconnected(t, out) ==
    /\ UNCHANGED calls
    /\ tasks[t].op = "confirm_login_code" /\ tasks[t].pc = "reconnect"
    /\ out \in ConnectOutcomes
    /\ IF out = "ok"
       THEN /\ conns' = [conns EXCEPT ![tasks[t].client].open = TRUE]
            /\ IF tasks[t].code # None \/ tasks[t].password # None
               THEN Suspend(t, [tasks[t] EXCEPT !.pc = "sign_in"])
               ELSE Finish(t, tasks[t], None, Ret(FALSE, FALSE, "missing_code_or_password"))
       ELSE /\ Finish(t, tasks[t], "connect_failed", Ret(FALSE, FALSE, ClassifyError("connect_failed")))
            /\ UNCHANGED conns
    /\ UNCHANGED <<clients, pending_phones, pending_code_hash, issued, sessions, users>>

\* A slip: the pending phone and token survive a successful sign-in.
SignInSucceeded_KeepsPending(t, out) ==
    LET c == tasks[t].client  u == tasks[t].user IN
    /\ conns' = [conns EXCEPT ![c].st = "auth", ![c].listeners = conns[c].listeners + 1]
    /\ sessions' = [sessions EXCEPT ![u] = "auth"]
    /\ update_telethon_status(u, TRUE)
    /\ UNCHANGED <<pending_phones, pending_code_hash>>
    /\ Finish(t, tasks[t], out, Ret(TRUE, FALSE, None))

\* "ورود موفق": attach the handler to the local `client`, update the users
\* table, drop the pending phone and token.  The remote network has authorized
\* the client and the library has saved the session.
SignInSucceeded(t, out) ==
    LET c == tasks[t].client  u == tasks[t].user IN
    /\ conns' = [conns EXCEPT ![c].st = "auth", ![c].listeners = conns[c].listeners + 1]
    /\ sessions' = [sessions EXCEPT ![u] = "auth"]
    /\ update_telethon_status(u, TRUE)
    /\ pending_phones' = [pending_phones EXCEPT ![u] = None]
    /\ pending_code_hash' = [pending_code_hash EXCEPT ![u] = NoHash]
    /\ Finish(t, tasks[t], out, Ret(TRUE, FALSE, None))

\* Whether the awaited sign_in raised.
SignInRaised(out) == out # "ok"

\* The error kind returned for what sign_in raised: the typed handlers, then
\* the classification of `except Exception`.
ErrorKind(out) ==
    CASE out = "need_password" -> None
      [] out = "invalid" -> "invalid_code"
      [] out = "expired" -> "code_expired"
      [] OTHER -> ClassifyError(out)

\* A slip: the need_password branch pops the token as well.
HashAfterFailure_PopsOnPassword(u, kind) ==
    [pending_code_hash EXCEPT ![u] = IF kind \in {"code_expired", None} THEN NoHash
                                     ELSE pending_code_hash[u]]

\* A slip: the invalid_code branches pop the token as well.
HashAfterFailure_PopsOnInvalid(u, kind) ==
    [pending_code_hash EXCEPT ![u] = IF kind \in {"code_expired", "invalid_code"} THEN NoHash
                                     ELSE pending_code_hash[u]]

\* pending_code_hash after a failed sign_in: only the two code_expired
\* branches pop the user's token.
HashAfterFailure(u, kind) ==
    [pending_code_hash EXCEPT ![u] = IF kind = "code_expired" THEN NoHash
                                     ELSE pending_code_hash[u]]

\* await client.sign_in(...) returns or raises.
SignInReturned(t, out) ==
    /\ UNCHANGED calls
    /\ tasks[t].op = "confirm_login_code" /\ tasks[t].pc = "sign_in"
    /\ out \in SignInOutcomes(tasks[t].client, tasks[t].phone, tasks[t].code,
                              tasks[t].hash, tasks[t].password)
    /\ LET c == tasks[t].client  u == tasks[t].user IN
       IF ~SignInRaised(out)
       THEN SignInSucceeded(t, out)
       ELSE /\ conns' = [conns EXCEPT ![c].st = IF out = "need_password" THEN "pwd"
                                                ELSE conns[c].st]
            /\ pending_code_hash' = HashAfterFailure(u, ErrorKind(out))
            /\ Finish(t, tasks[t], out, Ret(FALSE, out = "need_password", ErrorKind(out)))
            /\ UNCHANGED <<pending_phones, sessions, users>>
    /\ UNCHANGED <<clients, issued>>

\* ---- disconnect_user ----------------------------------------------------------
\* The call up to await self.clients[user_id].disconnect().
StartDisconnectUser(t, u) ==
    /\ FreeSlot(t)
    /\ NewCall
    /\ LET rec == [IdleTask EXCEPT !.op = "disconnect_user", !.user = u,
                                  !.client = clients[u], !.pc = "start",
                                  !.after = JustReturned(u)] IN
       IF clients[u] # NoClient
       THEN Suspend(t, [rec EXCEPT !.pc = "disc"])
       ELSE Finish(t, rec, None, Ret(FALSE, FALSE, None))
    /\ UNCHANGED <<clients, pending_phones, pending_code_hash, conns, issued, sessions, users>>

\* disconnect() returns or raises; then `del self.clients[user_id]` (a KeyError
\* when the entry is gone) and the update of the users table.
Disconnected(t, out) ==
    /\ UNCHANGED calls
    /\ tasks[t].op = "disconnect_user" /\ tasks[t].pc = "disc"
    /\ out \in DisconnectOutcomes
    /\ LET c == tasks[t].client  u == tasks[t].user IN
       IF out = "ok"
       THEN /\ conns' = [conns EXCEPT ![c].open = FALSE]
            /\ IF clients[u] # NoClient
               THEN /\ clients' = [clients EXCEPT ![u] = NoClient]
                    /\ update_telethon_status(u, FALSE)
                    /\ Finish(t, tasks[t], out, Ret(TRUE, FALSE, None))
               ELSE /\ Finish(t, tasks[t], "KeyError", Ret(FALSE, FALSE, None))
                    /\ UNCHANGED <<clients, users>>
       ELSE /\ Finish(t, tasks[t], out, Ret(FALSE, FALSE, None))
            /\ UNCHANGED <<clients, conns, users>>
    /\ UNCHANGED <<pending_phones, pending_code_hash, issued, sessions>>

\* ---- is_user_connected ----------------------------------------------------------
\* The call up to await client.is_user_authorized(): False at once for a user
\* without a registered client or with a client that is not connected.
StartIsUserConnected(t, u) ==
    /\ FreeSlot(t)
    /\ NewCall
    /\ LET rec == [IdleTask EXCEPT !.op = "is_user_connected", !.user = u,
                                  !.client = clients[u], !.after = JustReturned(u)] IN
       IF clients[u] = NoClient \/ ~conns[clients[u]].open
       THEN Finish(t, rec, None, Ret(FALSE, FALSE, None))
       ELSE Suspend(t, [rec EXCEPT !.pc = "iuc_auth"])
    /\ UNCHANGED <<clients, pending_phones, pending_code_hash, conns, issued, sessions, users>>

\* A slip: a connected client counts as an authorized one.
IsUserConnectedAnswered_AnyClient(t, out) ==
    /\ UNCHANGED calls
    /\ tasks[t].op = "is_user_connected" /\ tasks[t].pc = "iuc_auth"
    /\ out \in IsAuthorizedOutcomes
    /\ IF out = "answer"
       THEN Finish(t, tasks[t], out, Ret(TRUE, FALSE, None))
       ELSE Finish(t, tasks[t], out, Ret(FALSE, FALSE, "raised"))
    /\ UNCHANGED <<clients, pending_phones, pending_code_hash, conns, issued, sessions, users>>

\* is_user_authorized answers, and its answer is returned, or it raises and
\* the exception leaves is_user_connected.
IsUserConnectedAnswered(t, out) ==
    /\ UNCHANGED calls
    /\ tasks[t].op = "is_user_connected" /\ tasks[t].pc = "iuc_auth"
    /\ out \in IsAuthorizedOutcomes
    /\ IF out = "answer"
       THEN Finish(t, tasks[t], out, Ret(conns[tasks[t].client].st = "auth", FALSE, None))
       ELSE Finish(t, tasks[t], out, Ret(FALSE, FALSE, "raised"))
    /\ UNCHANGED <<clients, pending_phones, pending_code_hash, conns, issued, sessions, users>>

\* ---- start_monitoring -----------------------------------------------------------
\* The call up to the connect() of create_client: False at once when there is
\* no session file.
StartStartMonitoring(t, u) ==
    /\ FreeSlot(t)
    /\ NewCall
    /\ LET rec == [IdleTask EXCEPT !.op = "start_monitoring", !.user = u,
                                  !.after = JustReturned(u)] IN
       IF sessions[u] = "none"
       THEN /\ Finish(t, rec, None, Ret(FALSE, FALSE, None))
            /\ UNCHANGED conns
       ELSE /\ conns' = Append(conns, NewClient(u))
            /\ Suspend(t, [rec EXCEPT !.client = Len(conns) + 1, !.created = TRUE,
                                      !.pc = "cc_connect"])
    /\ UNCHANGED <<clients, pending_phones, pending_code_hash, issued, sessions, users>>

\* A slip: any answer of is_user_authorized counts as authorized.
StartMonitoringAuthorized_AnyAnswer(t, out) ==
    /\ UNCHANGED calls
    /\ tasks[t].op = "start_monitoring" /\ tasks[t].pc = "sm_auth"
    /\ out \in IsAuthorizedOutcomes
    /\ IF out = "answer"
       THEN Finish(t, tasks[t], out, Ret(TRUE, FALSE, None))
       ELSE Finish(t, tasks[t], out, Ret(FALSE, FALSE, None))
    /\ UNCHANGED <<clients, pending_phones, pending_code_hash, conns, issued, sessions, users>>

\* `client and await client.is_user_authorized()` answers or raises.
StartMonitoringAuthorized(t, out) ==
    /\ UNCHANGED calls
    /\ tasks[t].op = "start_monitoring" /\ tasks[t].pc = "sm_auth"
    /\ out \in IsAuthorizedOutcomes
    /\ IF out = "answer"
       THEN Finish(t, tasks[t], out, Ret(conns[tasks[t].client].st = "auth", FALSE, None))
       ELSE Finish(t, tasks[t], out, Ret(FALSE, FALSE, None))
    /\ UNCHANGED <<clients, pending_phones, pending_code_hash, conns, issued, sessions, users>>

\* ---- cleanup ----------------------------------------------------------------------
\* The registered clients in the order of list(self.clients.items()).
RECURSIVE ClientList(_)
ClientList(us) ==
    IF us = {} THEN << >>
    ELSE LET u == CHOOSE x \in us : TRUE IN
         (IF clients[u] # NoClient THEN <<clients[u]>> ELSE << >>) \o ClientList(us \ {u})

\* self.clients.clear()
NoClients == [u \in Users |-> NoClient]

\* The call up to the first await client.disconnect(); with no client it
\* clears the map and returns.
StartCleanup(t) ==
    /\ FreeSlot(t)
    /\ NewCall
    /\ LET rec == [IdleTask EXCEPT !.op = "cleanup", !.todo = ClientList(Users)] IN
       IF rec.todo = << >>
       THEN /\ clients' = NoClients
            /\ Finish(t, rec, None, Ret(TRUE, FALSE, None))
       ELSE /\ Suspend(t, [rec EXCEPT !.pc = "cl_disc"])
            /\ UNCHANGED clients
    /\ UNCHANGED <<pending_phones, pending_code_hash, conns, issued, sessions, users>>

\* A slip: without the inner try, a failing disconnect() ends the loop; the
\* outer handler logs it and the map is not cleared.
CleanupDisconnected_StopsAtFailure(t, out) ==
    /\ UNCHANGED calls
    /\ tasks[t].op = "cleanup" /\ tasks[t].pc = "cl_disc"
    /\ out \in DisconnectOutcomes
    /\ conns' = [conns EXCEPT ![Head(tasks[t].todo)].open =
                    IF out = "ok" THEN FALSE ELSE conns[Head(tasks[t].todo)].open]
    /\ IF out = "fail"
       THEN /\ Finish(t, tasks[t], out, Ret(TRUE, FALSE, None))
            /\ UNCHANGED clients
       ELSE IF Tail(tasks[t].todo) = << >>
       THEN /\ clients' = NoClients
            /\ Finish(t, tasks[t], out, Ret(TRUE, FALSE, None))
       ELSE /\ Suspend(t, [tasks[t] EXCEPT !.todo = Tail(tasks[t].todo)])
            /\ UNCHANGED clients
    /\ UNCHANGED <<pending_phones, pending_code_hash, issued, sessions, users>>

\* disconnect() of the next client returns or raises (the exception is
\* passed over); after the last one the map is cleared.
CleanupDisconnected(t, out) ==
    /\ UNCHANGED calls
    /\ tasks[t].op = "cleanup" /\ tasks[t].pc = "cl_disc"
    /\ out \in DisconnectOutcomes
    /\ conns' = [conns EXCEPT ![Head(tasks[t].todo)].open =
                    IF out = "ok" THEN FALSE ELSE conns[Head(tasks[t].todo)].open]
    /\ IF Tail(tasks[t].todo) = << >>
       THEN /\ clients' = NoClients
            /\ Finish(t, tasks[t], out, Ret(TRUE, FALSE, None))
       ELSE /\ Suspend(t, [tasks[t] EXCEPT !.todo = Tail(tasks[t].todo)])
            /\ UNCHANGED clients
    /\ UNCHANGED <<pending_phones, pending_code_hash, issued, sessions, users>>

\* ---- the network --------------------------------------------------------------
\* A connection the manager still uses (registered, or held by a call in
\* flight) drops.
InUse(c) ==
    \/ \E u \in Users : clients[u] = c
    \/ \E t \in Tasks : tasks[t].pc # "idle" /\ tasks[t].client = c

ConnectionLost(c) ==
    /\ c \in ConnIds
    /\ conns[c].open
    /\ InUse(c)
    /\ conns' = [conns EXCEPT ![c].open = FALSE]
    /\ returned' = NoReturn
    /\ UNCHANGED <<clients, pending_phones, pending_code_hash, issued, sessions, users,
                   tasks, calls>>

\* The remote network never answers the network call that the call in slot t
\* is suspended at: the await neither returns nor raises.
NetworkSilent(t) ==
    /\ tasks[t].pc # "idle"
    /\ ~tasks[t].silent
    /\ tasks' = [tasks EXCEPT ![t].silent = TRUE]
    /\ returned' = NoReturn
    /\ UNCHANGED <<clients, pending_phones, pending_code_hash, conns, issued, sessions, users,
                   calls>>

\* ---- bot/main.py: the front end ------------------------------------------------
\* UserStates of a user (None: no state), the phone_number kept in the FSM
\* data, and the handler of that user that is running, with its position.
NoHandler == [state |-> None, phone |-> None, handler |-> None, at |-> None]

\* No handle_message call.  `failed`: the collaborators that raised.
NoEvent == [user |-> None, chat |-> None, text |-> << >>, pc |-> "idle",
            detected |-> << >>, failed |-> {}]

\* ---- handle_message --------------------------------------------------------------
\* Characters of a message text: two lower-case letters and a capital.
Alphabet == {"a", "b", "A"}

\* The message texts, as sequences of characters; message.text is empty
\* for a message without text (a photo, a sticker).
Texts == UNION {[1..n -> Alphabet] : n \in 0..MaxTextLen}

\* The conversation a message comes from (chat.id).
Chats == {"c1"}

\* self.meeting_keywords: the vocabulary, in its order; two of its terms
\* stand for the fifteen.
meeting_keywords == << <<"b", "a">>, <<"a", "b">> >>

\* str.lower(), on a character and on a text.
LowerChar(ch) == IF ch = "A" THEN "a" ELSE ch

Lower(text) == [i \in 1..Len(text) |-> LowerChar(text[i])]

\* `keyword in text`: the keyword occurs in the text at some offset.
In(keyword, text) ==
    \E i \in 0..(Len(text) - Len(keyword)) : SubSeq(text, i + 1, i + Len(keyword)) = keyword

\* A slip: the keywords are looked for in message.text as it came.
DetectKeywords_CaseSensitive(text) ==
    LET RECURSIVE Loop(_, _)
        Loop(i, detected_keywords) ==
            IF i > Len(meeting_keywords) THEN detected_keywords
            ELSE Loop(i + 1, IF In(Lower(meeting_keywords[i]), text)
                             THEN Append(detected_keywords, meeting_keywords[i])
                             ELSE detected_keywords)
    IN Loop(1, << >>)

\* message_text = message.text.lower(), then the loop over
\* self.meeting_keywords that appends every keyword found in it.
DetectKeywords(text) ==
    LET RECURSIVE Loop(_, _)
        Loop(i, detected_keywords) ==
            IF i > Len(meeting_keywords) THEN detected_keywords
            ELSE Loop(i + 1, IF In(Lower(meeting_keywords[i]), Lower(text))
                             THEN Append(detected_keywords, meeting_keywords[i])
                             ELSE detected_keywords)
    IN Loop(1, << >>)

\* ", ".join(detected_keywords)
RECURSIVE Join(_)
Join(keywords) ==
    IF keywords = << >> THEN << >>
    ELSE IF Len(keywords) = 1 THEN keywords[1]
    ELSE keywords[1] \o <<",", " ">> \o Join(Tail(keywords))

\* The collaborators of handle_message answer or raise.
GetChatOutcomes == {"ok", "fail"}
InsertOutcomes == {"ok", "fail"}
SendMessageOutcomes == {"ok", "fail"}

\* The handle_message call returns.
Handled(rec) ==
    /\ handled' = rec
    /\ event' = NoEvent

\* A message comes in on the registered, authorized connection of user u,
\* which carries the NewMessage handler: handle_message runs up to
\* `await event.get_chat()`.
MessageArrives(u, chat, text) ==
    /\ arrived < MaxMessages
    /\ event = NoEvent
    /\ clients[u] # NoClient
    /\ conns[clients[u]].st = "auth" /\ conns[clients[u]].open
    /\ conns[clients[u]].listeners >= 1
    /\ arrived' = arrived + 1
    /\ event' = [NoEvent EXCEPT !.user = u, !.chat = chat, !.text = text, !.pc = "get_chat"]
    /\ handled' = NoEvent
    /\ UNCHANGED <<manager_bot, detected_messages, notifications>>

\* get_chat returned or raised.  Then: no text, return; the keywords; with a
\* keyword found, db.add_detected_message (which returns None when the
\* INSERT fails) and, with self.bot set, up to the await of
\* send_meeting_detection_message.
GotChat(out, dbout) ==
    /\ event.pc = "get_chat"
    /\ out \in GetChatOutcomes /\ dbout \in InsertOutcomes
    /\ UNCHANGED <<manager_bot, notifications, arrived>>
    /\ IF out = "fail"
       THEN /\ Handled([event EXCEPT !.failed = {"get_chat"}])
            /\ UNCHANGED detected_messages
       ELSE IF event.text = << >>
       THEN /\ Handled(event)
            /\ UNCHANGED detected_messages
       ELSE LET detected_keywords == DetectKeywords(event.text)
                rec == [event EXCEPT !.detected = detected_keywords,
                                     !.failed = IF dbout = "fail" THEN {"insert"}
                                                ELSE {}] IN
            IF detected_keywords = << >>
            THEN /\ Handled([event EXCEPT !.detected = detected_keywords])
                 /\ UNCHANGED detected_messages
            ELSE /\ detected_messages' =
                        IF dbout = "ok"
                        THEN Append(detected_messages,
                                    [user_id |-> event.user, chat_id |-> event.chat,
                                     message_text |-> event.text,
                                     detected_keywords |-> Join(detected_keywords)])
                        ELSE detected_messages
                 /\ IF manager_bot # None
                    THEN /\ event' = [rec EXCEPT !.pc = "notify"]
                         /\ handled' = NoEvent
                    ELSE Handled(rec)

\* bot.send_message of send_meeting_detection_message returned or raised.
Notified(out) ==
    /\ event.pc = "notify"
    /\ out \in SendMessageOutcomes
    /\ notifications' =
           IF out = "ok"
           THEN Append(notifications, [user_id |-> event.user, chat_id |-> event.chat,
                                       message_text |-> event.text])
           ELSE notifications
    /\ Handled([event EXCEPT !.failed = IF out = "fail" THEN event.failed \cup {"send"}
                                        ELSE event.failed])
    /\ UNCHANGED <<manager_bot, detected_messages, arrived>>

\* ---- the entry points ------------------------------------------------------------
\* main.py builds the manager and the bot and sets telethon_manager.bot;
\* run.py and bot/main.py build a TelegramBot, whose own manager keeps
\* self.bot = None.
EntryPoints == {"main.py", "run.py", "bot/main.py"}

WiredBot(entry) == IF entry = "main.py" THEN "bot" ELSE None

Init ==
    /\ clients = [u \in Users |-> NoClient]
    /\ pending_phones = [u \in Users |-> None]
    /\ pending_code_hash = [u \in Users |-> NoHash]
    /\ conns = << >>
    /\ issued = << >>
    /\ sessions = [u \in Users |-> "none"]
    /\ users = [u \in Users |-> "absent"]
    /\ tasks = [t \in Tasks |-> IdleTask]
    /\ returned = NoReturn
    /\ calls = 0
    /\ fsm = [u \in Users |-> NoHandler]
    /\ manager_bot = None
    /\ event = NoEvent
    /\ handled = NoEvent
    /\ detected_messages = << >>
    /\ notifications = << >>
    /\ arrived = 0
    /\ disconnected = {}

\* ---- specifications -------------------------------------------------------------
\* The steps that continue a call in flight, and the environment.
Continue ==
    \/ \E t \in Tasks, out \in ConnectOutcomes : CreateClientConnected(t, out) /\ UNCHANGED <<fsm, mvars, disconnected>>
    \/ \E t \in Tasks, out \in IsAuthorizedOutcomes : CreateClientAuthorized(t, out) /\ UNCHANGED <<fsm, mvars, disconnected>>
    \/ \E t \in Tasks, out \in ConnectOutcomes : SendLoginCodeReconnected(t, out) /\ UNCHANGED <<fsm, mvars, disconnected>>
    \/ \E t \in Tasks, out \in AllSendCodeOutcomes : SendCodeReturned(t, out) /\ UNCHANGED <<fsm, mvars, disconnected>>
    \/ \E t \in Tasks, out \in AllSendCodeOutcomes : SendCodeRetried(t, out) /\ UNCHANGED <<fsm, mvars, disconnected>>
    \/ \E t \in Tasks, out \in ConnectOutcomes : ConfirmReconnected(t, out) /\ UNCHANGED <<fsm, mvars, disconnected>>
    \/ \E t \in Tasks, out \in AllSignInOutcomes : SignInReturned(t, out) /\ UNCHANGED <<fsm, mvars, disconnected>>
    \/ \E t \in Tasks, out \in DisconnectOutcomes : Disconnected(t, out) /\ UNCHANGED <<fsm, mvars, disconnected>>
    \/ \E t \in Tasks, out \in IsAuthorizedOutcomes :
          IsUserConnectedAnswered(t, out) /\ UNCHANGED <<fsm, mvars, disconnected>>
    \/ \E t \in Tasks, out \in IsAuthorizedOutcomes :
          StartMonitoringAuthorized(t, out) /\ UNCHANGED <<fsm, mvars, disconnected>>
    \/ \E t \in Tasks, out \in DisconnectOutcomes : CleanupDisconnected(t, out) /\ UNCHANGED <<fsm, mvars, disconnected>>
    \/ \E c \in ConnIds : ConnectionLost(c) /\ UNCHANGED <<fsm, mvars, disconnected>>
    \/ \E u \in Callers : add_user(u) /\ UNCHANGED <<fsm, mvars, disconnected>>

ConfirmInputs == {<<c, None>> : c \in Codes} \cup {<<None, p>> : p \in Passwords}
                    \cup {<<None, None>>}

\* Calls start at any time: the front end handles its updates concurrently.
\* This specification explores MaxRaceCalls calls.
Next ==
    \/ \E t \in Tasks, u \in Callers, p \in Phones :
          calls < MaxRaceCalls /\ StartSendLoginCode(t, u, p) /\ UNCHANGED <<fsm, mvars, disconnected>>
    \/ \E t \in Tasks, u \in Callers, in \in ConfirmInputs :
          calls < MaxRaceCalls /\ StartConfirmLoginCode(t, u, in[1], in[2]) /\ UNCHANGED <<fsm, mvars, disconnected>>
    \/ \E t \in Tasks, u \in Callers :
          calls < MaxRaceCalls /\ StartDisconnectUser(t, u) /\ UNCHANGED <<fsm, mvars, disconnected>>
    \/ \E t \in Tasks, u \in Callers :
          calls < MaxRaceCalls /\ StartIsUserConnected(t, u) /\ UNCHANGED <<fsm, mvars, disconnected>>
    \/ \E t \in Tasks, u \in Callers :
          calls < MaxRaceCalls /\ StartStartMonitoring(t, u) /\ UNCHANGED <<fsm, mvars, disconnected>>
    \/ \E t \in Tasks : calls < MaxRaceCalls /\ StartCleanup(t) /\ UNCHANGED <<fsm, mvars, disconnected>>
    \/ Continue

Spec == Init /\ [][Next]_vars

\* The calls of one user are made one after the other: a call for a user
\* starts only when no other call for that user is in flight.
SeqNext ==
    \/ \E t \in Tasks, u \in Callers, p \in Phones :
          ~Busy(u) /\ StartSendLoginCode(t, u, p) /\ UNCHANGED <<fsm, mvars, disconnected>>
    \/ \E t \in Tasks, u \in Callers, in \in ConfirmInputs :
          ~Busy(u) /\ StartConfirmLoginCode(t, u, in[1], in[2]) /\ UNCHANGED <<fsm, mvars, disconnected>>
    \/ \E t \in Tasks, u \in Callers : ~Busy(u) /\ StartDisconnectUser(t, u) /\ UNCHANGED <<fsm, mvars, disconnected>>
    \/ \E t \in Tasks, u \in Callers : ~Busy(u) /\ StartIsUserConnected(t, u) /\ UNCHANGED <<fsm, mvars, disconnected>>
    \/ \E t \in Tasks, u \in Callers : ~Busy(u) /\ StartStartMonitoring(t, u) /\ UNCHANGED <<fsm, mvars, disconnected>>
    \/ \E t \in Tasks : (\A u \in Users : ~Busy(u)) /\ StartCleanup(t) /\ UNCHANGED <<fsm, mvars, disconnected>>
    \/ Continue

SeqSpec == Init /\ [][SeqNext]_vars

\* The login handshake and disconnect_user only (send_login_code,
\* confirm_login_code, disconnect_user), their calls starting at any time.
HandshakeNext ==
    \/ \E t \in Tasks, u \in Callers, p \in Phones :
          calls < MaxRaceCalls /\ StartSendLoginCode(t, u, p) /\ UNCHANGED <<fsm, mvars, disconnected>>
    \/ \E t \in Tasks, u \in Callers, in \in ConfirmInputs :
          calls < MaxRaceCalls /\ StartConfirmLoginCode(t, u, in[1], in[2]) /\ UNCHANGED <<fsm, mvars, disconnected>>
    \/ \E t \in Tasks, u \in Callers :
          calls < MaxRaceCalls /\ StartDisconnectUser(t, u) /\ UNCHANGED <<fsm, mvars, disconnected>>
    \/ \E t \in Tasks, out \in ConnectOutcomes : CreateClientConnected(t, out) /\ UNCHANGED <<fsm, mvars, disconnected>>
    \/ \E t \in Tasks, out \in IsAuthorizedOutcomes : CreateClientAuthorized(t, out) /\ UNCHANGED <<fsm, mvars, disconnected>>
    \/ \E t \in Tasks, out \in ConnectOutcomes : SendLoginCodeReconnected(t, out) /\ UNCHANGED <<fsm, mvars, disconnected>>
    \/ \E t \in Tasks, out \in AllSendCodeOutcomes : SendCodeReturned(t, out) /\ UNCHANGED <<fsm, mvars, disconnected>>
    \/ \E t \in Tasks, out \in AllSendCodeOutcomes : SendCodeRetried(t, out) /\ UNCHANGED <<fsm, mvars, disconnected>>
    \/ \E t \in Tasks, out \in ConnectOutcomes : ConfirmReconnected(t, out) /\ UNCHANGED <<fsm, mvars, disconnected>>
    \/ \E t \in Tasks, out \in AllSignInOutcomes : SignInReturned(t, out) /\ UNCHANGED <<fsm, mvars, disconnected>>
    \/ \E t \in Tasks, out \in DisconnectOutcomes : Disconnected(t, out) /\ UNCHANGED <<fsm, mvars, disconnected>>
    \/ \E c \in ConnIds : ConnectionLost(c) /\ UNCHANGED <<fsm, mvars, disconnected>>
    \/ \E u \in Callers : add_user(u) /\ UNCHANGED <<fsm, mvars, disconnected>>

HandshakeSpec == Init /\ [][HandshakeNext]_vars

\* The phone number of each user.
PhoneOf(u) == IF u = "u1" THEN "p1" ELSE "p2"

\* Two users, each with a phone number and a row in the users table: every
\* user of Users makes calls, one after the other, and the calls of
\* different users interleave in every way; no connection drops.
\* This specification explores MaxPairCalls calls.
PairNext ==
    \/ \E t \in Tasks, u \in Users :
          calls < MaxPairCalls /\ ~Busy(u) /\ StartSendLoginCode(t, u, PhoneOf(u))
             /\ UNCHANGED <<fsm, mvars, disconnected>>
    \/ \E t \in Tasks, u \in Users, in \in ConfirmInputs :
          calls < MaxPairCalls /\ ~Busy(u) /\ StartConfirmLoginCode(t, u, in[1], in[2]) /\ UNCHANGED <<fsm, mvars, disconnected>>
    \/ \E t \in Tasks, u \in Users :
          calls < MaxPairCalls /\ ~Busy(u) /\ StartDisconnectUser(t, u) /\ UNCHANGED <<fsm, mvars, disconnected>>
    \/ \E t \in Tasks, u \in Users :
          calls < MaxPairCalls /\ ~Busy(u) /\ StartStartMonitoring(t, u) /\ UNCHANGED <<fsm, mvars, disconnected>>
    \/ \E t \in Tasks, out \in ConnectOutcomes : CreateClientConnected(t, out) /\ UNCHANGED <<fsm, mvars, disconnected>>
    \/ \E t \in Tasks, out \in IsAuthorizedOutcomes : CreateClientAuthorized(t, out) /\ UNCHANGED <<fsm, mvars, disconnected>>
    \/ \E t \in Tasks, out \in AllSendCodeOutcomes : SendCodeReturned(t, out) /\ UNCHANGED <<fsm, mvars, disconnected>>
    \/ \E t \in Tasks, out \in AllSendCodeOutcomes : SendCodeRetried(t, out) /\ UNCHANGED <<fsm, mvars, disconnected>>
    \/ \E t \in Tasks, out \in AllSignInOutcomes : SignInReturned(t, out) /\ UNCHANGED <<fsm, mvars, disconnected>>
    \/ \E t \in Tasks, out \in DisconnectOutcomes : Disconnected(t, out) /\ UNCHANGED <<fsm, mvars, disconnected>>
    \/ \E t \in Tasks, out \in IsAuthorizedOutcomes :
          StartMonitoringAuthorized(t, out) /\ UNCHANGED <<fsm, mvars, disconnected>>
    \/ \E u \in Users : users[u] = "absent" /\ add_user(u) /\ UNCHANGED <<fsm, mvars, disconnected>>

PairSpec == Init /\ [][PairNext]_vars

\* Shutdown with several users registered: every user of Users requests
\* login codes for their phone number, one call after the other, and cleanup
\* starts at any time.
\* This specification explores MaxPairCalls calls.
ShutdownNext ==
    \/ \E t \in Tasks, u \in Users :
          calls < MaxPairCalls /\ ~Busy(u) /\ StartSendLoginCode(t, u, PhoneOf(u))
             /\ UNCHANGED <<fsm, mvars, disconnected>>
    \/ \E t \in Tasks : calls < MaxPairCalls /\ StartCleanup(t) /\ UNCHANGED <<fsm, mvars, disconnected>>
    \/ \E t \in Tasks, out \in ConnectOutcomes : CreateClientConnected(t, out) /\ UNCHANGED <<fsm, mvars, disconnected>>
    \/ \E t \in Tasks, out \in IsAuthorizedOutcomes : CreateClientAuthorized(t, out) /\ UNCHANGED <<fsm, mvars, disconnected>>
    \/ \E t \in Tasks, out \in ConnectOutcomes : SendLoginCodeReconnected(t, out) /\ UNCHANGED <<fsm, mvars, disconnected>>
    \/ \E t \in Tasks, out \in AllSendCodeOutcomes : SendCodeReturned(t, out) /\ UNCHANGED <<fsm, mvars, disconnected>>
    \/ \E t \in Tasks, out \in AllSendCodeOutcomes : SendCodeRetried(t, out) /\ UNCHANGED <<fsm, mvars, disconnected>>
    \/ \E t \in Tasks, out \in DisconnectOutcomes : CleanupDisconnected(t, out) /\ UNCHANGED <<fsm, mvars, disconnected>>
    \/ \E c \in ConnIds : ConnectionLost(c) /\ UNCHANGED <<fsm, mvars, disconnected>>
    \/ \E u \in Users : users[u] = "absent" /\ add_user(u) /\ UNCHANGED <<fsm, mvars, disconnected>>

ShutdownSpec == Init /\ [][ShutdownNext]_vars

\* The network call that the call in slot t awaits returns or raises, and
\* the event loop resumes the call.
Answered(t) ==
    /\ ~tasks[t].silent
    /\ \/ \E out \in ConnectOutcomes : CreateClientConnected(t, out)
       \/ \E out \in IsAuthorizedOutcomes : CreateClientAuthorized(t, out)
       \/ \E out \in ConnectOutcomes : SendLoginCodeReconnected(t, out)
       \/ \E out \in AllSendCodeOutcomes : SendCodeReturned(t, out)
       \/ \E out \in AllSendCodeOutcomes : SendCodeRetried(t, out)
       \/ \E out \in ConnectOutcomes : ConfirmReconnected(t, out)
       \/ \E out \in AllSignInOutcomes : SignInReturned(t, out)
       \/ \E out \in DisconnectOutcomes : Disconnected(t, out)
       \/ \E out \in IsAuthorizedOutcomes : StartMonitoringAuthorized(t, out)
    /\ UNCHANGED <<fsm, mvars, disconnected>>

\* The calls of one user, one after the other, with a remote network that
\* may leave a network call without an answer for ever.
\* This specification explores MaxPairCalls calls.
LiveNext ==
    \/ \E t \in Tasks, u \in Callers :
          calls < MaxPairCalls /\ ~Busy(u) /\ StartSendLoginCode(t, u, PhoneOf(u))
             /\ UNCHANGED <<fsm, mvars, disconnected>>
    \/ \E t \in Tasks, u \in Callers, in \in ConfirmInputs :
          calls < MaxPairCalls /\ ~Busy(u) /\ StartConfirmLoginCode(t, u, in[1], in[2])
             /\ UNCHANGED <<fsm, mvars, disconnected>>
    \/ \E t \in Tasks, u \in Callers :
          calls < MaxPairCalls /\ ~Busy(u) /\ StartDisconnectUser(t, u) /\ UNCHANGED <<fsm, mvars, disconnected>>
    \/ \E t \in Tasks, u \in Callers :
          calls < MaxPairCalls /\ ~Busy(u) /\ StartStartMonitoring(t, u) /\ UNCHANGED <<fsm, mvars, disconnected>>
    \/ \E t \in Tasks : Answered(t)
    \/ \E t \in Tasks : NetworkSilent(t) /\ UNCHANGED <<fsm, mvars, disconnected>>
    \/ \E c \in ConnIds : ConnectionLost(c) /\ UNCHANGED <<fsm, mvars, disconnected>>
    \/ \E u \in Callers : users[u] = "absent" /\ add_user(u) /\ UNCHANGED <<fsm, mvars, disconnected>>

\* The event loop resumes a call once the network call it awaits has
\* returned or raised, and the remote network answers every network call
\* except the ones it leaves without an answer (NetworkSilent).
LiveSpec == Init /\ [][LiveNext]_vars /\ \A t \in Tasks : WF_vars(Answered(t))

\* History of the calls that returned: a user is in `disconnected` from the
\* return of a disconnect_user that returned True until the return of a
\* send_login_code that returned True.
NoteReturn ==
    disconnected' =
        IF returned'.op = "disconnect_user" /\ returned'.ret.ok
        THEN disconnected \cup {returned'.user}
        ELSE IF returned'.op = "send_login_code" /\ returned'.ret.ok
        THEN disconnected \ {returned'.user}
        ELSE disconnected

\* Logging in again: one user requests codes, confirms and disconnects, one
\* call after the other, over a network that drops connections.
ReloginNext ==
    \/ \E t \in Tasks, u \in Callers :
          ~Busy(u) /\ StartSendLoginCode(t, u, PhoneOf(u)) /\ NoteReturn /\ UNCHANGED <<fsm, mvars>>
    \/ \E t \in Tasks, u \in Callers, in \in ConfirmInputs :
          ~Busy(u) /\ StartConfirmLoginCode(t, u, in[1], in[2]) /\ NoteReturn
             /\ UNCHANGED <<fsm, mvars>>
    \/ \E t \in Tasks, u \in Callers :
          ~Busy(u) /\ StartDisconnectUser(t, u) /\ NoteReturn /\ UNCHANGED <<fsm, mvars>>
    \/ \E t \in Tasks, out \in ConnectOutcomes :
          CreateClientConnected(t, out) /\ NoteReturn /\ UNCHANGED <<fsm, mvars>>
    \/ \E t \in Tasks, out \in IsAuthorizedOutcomes :
          CreateClientAuthorized(t, out) /\ NoteReturn /\ UNCHANGED <<fsm, mvars>>
    \/ \E t \in Tasks, out \in ConnectOutcomes :
          SendLoginCodeReconnected(t, out) /\ NoteReturn /\ UNCHANGED <<fsm, mvars>>
    \/ \E t \in Tasks, out \in AllSendCodeOutcomes :
          SendCodeReturned(t, out) /\ NoteReturn /\ UNCHANGED <<fsm, mvars>>
    \/ \E t \in Tasks, out \in AllSendCodeOutcomes :
          SendCodeRetried(t, out) /\ NoteReturn /\ UNCHANGED <<fsm, mvars>>
    \/ \E t \in Tasks, out \in ConnectOutcomes :
          ConfirmReconnected(t, out) /\ NoteReturn /\ UNCHANGED <<fsm, mvars>>
    \/ \E t \in Tasks, out \in AllSignInOutcomes :
          SignInReturned(t, out) /\ NoteReturn /\ UNCHANGED <<fsm, mvars>>
    \/ \E t \in Tasks, out \in DisconnectOutcomes :
          Disconnected(t, out) /\ NoteReturn /\ UNCHANGED <<fsm, mvars>>
    \/ \E c \in ConnIds : ConnectionLost(c) /\ UNCHANGED <<fsm, mvars, disconnected>>
    \/ \E u \in Callers :
          users[u] = "absent" /\ add_user(u) /\ UNCHANGED <<fsm, mvars, disconnected>>

ReloginSpec == Init /\ [][ReloginNext]_vars

\* Incoming messages: the program was started from one of its entry points
\* and user u1 has logged in (send_login_code, then confirm_login_code with
\* the code); MaxMessages messages come in.
DetectInit ==
    /\ clients = [u \in Users |-> IF u = "u1" THEN 1 ELSE NoClient]
    /\ pending_phones = [u \in Users |-> None]
    /\ pending_code_hash = [u \in Users |-> NoHash]
    /\ conns = <<[owner |-> "u1", open |-> TRUE, st |-> "auth", listeners |-> 1]>>
    /\ issued = <<"p1">>
    /\ sessions = [u \in Users |-> IF u = "u1" THEN "auth" ELSE "none"]
    /\ users = [u \in Users |-> IF u = "u1" THEN "connected" ELSE "absent"]
    /\ tasks = [t \in Tasks |-> IdleTask]
    /\ returned = [op |-> "confirm_login_code", user |-> "u1", hash |-> NoHash,
                   rsp |-> "ok", ret |-> Ret(TRUE, FALSE, None),
                   after |-> [op |-> "send_login_code", hash |-> 1, rsp |-> "ok",
                              ok |-> TRUE]]
    /\ calls = 2
    /\ fsm = [u \in Users |-> NoHandler]
    /\ \E entry \in EntryPoints : manager_bot = WiredBot(entry)
    /\ event = NoEvent
    /\ handled = NoEvent
    /\ detected_messages = << >>
    /\ notifications = << >>
    /\ arrived = 0
    /\ disconnected = {}

\* The manager's own state does not change while a message is handled.
ManagerUnchanged ==
    UNCHANGED <<clients, pending_phones, pending_code_hash, conns, issued, sessions,
                users, tasks, returned, calls, fsm, disconnected>>

DetectNext ==
    \/ \E u \in Users, chat \in Chats, text \in Texts :
          MessageArrives(u, chat, text) /\ ManagerUnchanged
    \/ \E out \in GetChatOutcomes, dbout \in InsertOutcomes :
          GotChat(out, dbout) /\ ManagerUnchanged
    \/ \E out \in SendMessageOutcomes : Notified(out) /\ ManagerUnchanged

DetectSpec == DetectInit /\ [][DetectNext]_vars

\* ---- bot/main.py: the handlers ---------------------------------------------------
\* The handler of user u goes on after the manager call it awaited returned
\* `r` (f is the user's FSM record while the call was awaited).
\*   handle_phone_number: waiting_for_code when the code was sent;
\*   handle_verification_code: waiting_for_password on need_password; on
\*     code_expired it sends a new code itself to the phone of the FSM data
\*     and the state stays; state.clear() on success;
\*   handle_2fa_password: state.clear() on success.
HandlerResumed(f, r) ==
    CASE f.handler = "handle_phone_number" ->
            [f EXCEPT !.state = IF r.ret.ok THEN "waiting_for_code" ELSE f.state,
                      !.handler = None, !.at = None]
      [] f.handler = "handle_verification_code" /\ f.at = "confirm" ->
            IF r.ret.need_password
            THEN [f EXCEPT !.state = "waiting_for_password", !.handler = None, !.at = None]
            ELSE IF r.ret.error = "code_expired"
            THEN (IF f.phone # None THEN [f EXCEPT !.at = "resend"]
                  ELSE [f EXCEPT !.handler = None, !.at = None])
            ELSE IF r.ret.ok
            THEN [NoHandler EXCEPT !.state = None]
            ELSE [f EXCEPT !.handler = None, !.at = None]
      [] f.handler = "handle_verification_code" /\ f.at = "resent" ->
            [f EXCEPT !.handler = None, !.at = None]
      [] f.handler = "handle_2fa_password" ->
            IF r.ret.ok THEN [NoHandler EXCEPT !.state = None]
            ELSE [f EXCEPT !.handler = None, !.at = None]
      [] OTHER -> f

\* The FSM after a step of the manager: `g` is the FSM at the await; the
\* handler of the user whose call returned in this step goes on.
HandlersResume(g) ==
    fsm' = [u \in Users |-> IF returned'.user = u THEN HandlerResumed(g[u], returned')
                            ELSE g[u]]

\* The bot's own Telegram account, the sender of the messages the bot posts;
\* it has no row in the users table.
BotId == "bot"

\* db.get_user(telegram_id): the status of the row, absent without a row.
get_user(telegram_id) ==
    IF telegram_id \in DOMAIN users THEN users[telegram_id] ELSE "absent"

\* start_telegram_connection(message, state): unless the users table says
\* that message.from_user is connected, the state of the user of the update
\* (u) becomes waiting_for_phone.
start_telegram_connection(from_user, u) ==
    /\ fsm[u].handler = None
    /\ get_user(from_user) # "connected"
    /\ fsm' = [fsm EXCEPT ![u].state = "waiting_for_phone"]
    /\ returned' = NoReturn
    /\ UNCHANGED <<clients, pending_phones, pending_code_hash, conns, issued, sessions,
                   users, tasks, calls>>

\* /connect: the message is the user's own command.
connect_telegram_command(u) == start_telegram_connection(u, u)

\* The 'connect' inline button pressed by u: start_telegram_connection gets
\* callback_query.message, the message the button hangs on, which the bot sent.
handle_callback_query(u) == start_telegram_connection(BotId, u)

\* handle_phone_number up to its first await: the contact's phone number is
\* saved with add_user.
handle_phone_number(u, p) ==
    /\ fsm[u].handler = None
    /\ fsm[u].state = "waiting_for_phone"
    /\ add_user(u)
    /\ fsm' = [fsm EXCEPT ![u].phone = p, ![u].handler = "handle_phone_number",
                          ![u].at = "start"]

\* handle_phone_number -> start_telethon_connection: send_login_code is called.
start_telethon_connection(t, u) ==
    /\ fsm[u].handler = "handle_phone_number" /\ fsm[u].at = "start"
    /\ StartSendLoginCode(t, u, fsm[u].phone)
    /\ HandlersResume([fsm EXCEPT ![u].at = "send"])

\* handle_verification_code: confirm_login_code is called with the code.
handle_verification_code(t, u, code) ==
    /\ fsm[u].handler = None
    /\ fsm[u].state = "waiting_for_code"
    /\ StartConfirmLoginCode(t, u, code, None)
    /\ HandlersResume([fsm EXCEPT ![u].handler = "handle_verification_code",
                                  ![u].at = "confirm"])

\* handle_verification_code after code_expired: "try auto resend latest code".
ResendAfterExpired(t, u) ==
    /\ fsm[u].handler = "handle_verification_code" /\ fsm[u].at = "resend"
    /\ StartSendLoginCode(t, u, fsm[u].phone)
    /\ HandlersResume([fsm EXCEPT ![u].at = "resent"])

\* handle_2fa_password: confirm_login_code is called with the password.
handle_2fa_password(t, u, password) ==
    /\ fsm[u].handler = None
    /\ fsm[u].state = "waiting_for_password"
    /\ StartConfirmLoginCode(t, u, None, password)
    /\ HandlersResume([fsm EXCEPT ![u].handler = "handle_2fa_password", ![u].at = "confirm"])

\* The calls are made by the front end's handlers, one handler of a user at
\* a time.
BotNext ==
    \/ \E u \in Callers : connect_telegram_command(u) /\ UNCHANGED <<mvars, disconnected>>
    \/ \E u \in Callers : handle_callback_query(u) /\ UNCHANGED <<mvars, disconnected>>
    \/ \E u \in Callers, p \in Phones : handle_phone_number(u, p) /\ UNCHANGED <<mvars, disconnected>>
    \/ \E t \in Tasks, u \in Callers : start_telethon_connection(t, u) /\ UNCHANGED <<mvars, disconnected>>
    \/ \E t \in Tasks, u \in Callers, code \in Codes : handle_verification_code(t, u, code) /\ UNCHANGED <<mvars, disconnected>>
    \/ \E t \in Tasks, u \in Callers : ResendAfterExpired(t, u) /\ UNCHANGED <<mvars, disconnected>>
    \/ \E t \in Tasks, u \in Callers, pw \in Passwords : handle_2fa_password(t, u, pw) /\ UNCHANGED <<mvars, disconnected>>
    \/ \E t \in Tasks, out \in ConnectOutcomes : CreateClientConnected(t, out) /\ HandlersResume(fsm) /\ UNCHANGED <<mvars, disconnected>>
    \/ \E t \in Tasks, out \in IsAuthorizedOutcomes : CreateClientAuthorized(t, out) /\ HandlersResume(fsm) /\ UNCHANGED <<mvars, disconnected>>
    \/ \E t \in Tasks, out \in ConnectOutcomes : SendLoginCodeReconnected(t, out) /\ HandlersResume(fsm) /\ UNCHANGED <<mvars, disconnected>>
    \/ \E t \in Tasks, out \in AllSendCodeOutcomes : SendCodeReturned(t, out) /\ HandlersResume(fsm) /\ UNCHANGED <<mvars, disconnected>>
    \/ \E t \in Tasks, out \in AllSendCodeOutcomes : SendCodeRetried(t, out) /\ HandlersResume(fsm) /\ UNCHANGED <<mvars, disconnected>>
    \/ \E t \in Tasks, out \in ConnectOutcomes : ConfirmReconnected(t, out) /\ HandlersResume(fsm) /\ UNCHANGED <<mvars, disconnected>>
    \/ \E t \in Tasks, out \in AllSignInOutcomes : SignInReturned(t, out) /\ HandlersResume(fsm) /\ UNCHANGED <<mvars, disconnected>>
    \/ \E c \in ConnIds : ConnectionLost(c) /\ UNCHANGED <<fsm, mvars, disconnected>>

BotSpec == Init /\ [][BotNext]_vars

\* ---- the login state of a user, read off the manager's state ----------------
Registered(u) == clients[u] # NoClient

\* Authorized: the registered client is authorized.
Authorized(u) == Registered(u) /\ conns[clients[u]].st = "auth"

\* PasswordRequired: the code was accepted, the second factor is awaited.
PasswordRequired(u) ==
    /\ Registered(u)
    /\ conns[clients[u]].st = "pwd"
    /\ pending_phones[u] # None

\* The open connections created for user u, registered or not.
OpenConns(u) == {c \in ConnIds : conns[c].owner = u /\ conns[c].open}

\* The calls of send_login_code whose code request is with the remote network.
CodeRequestsInFlight ==
    {t \in Tasks : tasks[t].op = "send_login_code" /\ tasks[t].pc \in {"send1", "send2"}}

\* ---- claims -----------------------------------------------------------------
\* C1: for every user there is at most one PendingLogin (the two maps hold one
\* entry per user by construction) and at most one open connection created
\* for that user, registered or not, under any interleaving of the calls.
C1_AtMostOneOpenConnection ==
    \A u \in Users : Cardinality(OpenConns(u)) <= 1

\* C2: no connection ever has more than one message listener attached.
C2_AtMostOneListener ==
    \A c \in ConnIds : conns[c].listeners <= 1

\* C3: when send_login_code has its code request with the remote network, no
\* token of an earlier attempt is stored for the user, the connection it uses
\* was opened by this call and every other connection of the user is closed.
C3_FreshStartBeforeCodeRequest ==
    \A t \in CodeRequestsInFlight :
        /\ pending_code_hash[tasks[t].user] = NoHash
        /\ tasks[t].created
        /\ OpenConns(tasks[t].user) \subseteq {tasks[t].client}

\* C4: after two send_login_code calls in a row, a confirm_login_code call
\* with a code never submits the token the first call returned.  Stated for
\* the confirm_login_code that starts right after the second call returned.
C4_FirstTokenNeverSubmitted ==
    [][\A t \in Tasks :
          (/\ returned.op = "send_login_code"
           /\ returned.after.op = "send_login_code"
           /\ returned.after.ok
           /\ tasks[t].pc = "idle"
           /\ tasks'[t].op = "confirm_login_code"
           /\ tasks'[t].user = returned.user
           /\ tasks'[t].code # None
           /\ tasks'[t].pc = "sign_in")
          => tasks'[t].hash # returned.after.hash]_vars

\* C5: when no call of the user is in flight and both a pending phone and a
\* pending token are stored, the token was issued for exactly that phone.
C5_TokenMatchesPhone ==
    \A u \in Users :
        (~Busy(u) /\ pending_phones[u] # None /\ pending_code_hash[u] # NoHash)
        => issued[pending_code_hash[u]] = pending_phones[u]

ConfirmOps == {"confirm_login_code", "confirm_password", "confirm_nothing"}

\* The error kinds confirm_login_code returns when the pending login is missing.
NoPendingLogin == {"no_pending_phone", "no_code_hash"}

ListenersUnchanged ==
    /\ Len(conns') = Len(conns)
    /\ \A c \in ConnIds : conns'[c].listeners = conns[c].listeners

\* C6: a confirm_login_code whose code the remote network accepted without a
\* second factor returns ok=true and leaves the user with a registered,
\* authorized connection that carries the listener, the users table saying
\* connected, and no pending phone or token; a confirm_login_code with a code
\* directly after a successful one returns a no-pending-login error at once,
\* without a remote sign-in call.
C6_ConfirmCodeSucceeds ==
    /\ (returned.op = "confirm_login_code" /\ returned.rsp = "ok") =>
          /\ returned.ret = Ret(TRUE, FALSE, None)
          /\ Authorized(returned.user)
          /\ conns[clients[returned.user]].listeners >= 1
          /\ users[returned.user] = "connected"
          /\ pending_phones[returned.user] = None
          /\ pending_code_hash[returned.user] = NoHash
    /\ (/\ returned.op = "confirm_login_code"
        /\ returned.after.op = "confirm_login_code"
        /\ returned.after.ok) =>
          /\ ~returned.ret.ok
          /\ returned.ret.error \in NoPendingLogin
          /\ returned.rsp = None
    /\ \A t \in Tasks :
          ~(/\ tasks[t].op = "confirm_login_code"
            /\ tasks[t].code # None
            /\ tasks[t].after.op = "confirm_login_code"
            /\ tasks[t].after.ok)

\* C6 witness: a second confirm_login_code returned right after a success.
C6_Witness ==
    /\ returned.op = "confirm_login_code"
    /\ returned.after.op = "confirm_login_code"
    /\ returned.after.rsp = "ok"
    /\ returned.ret.error = "no_pending_phone"
    /\ Authorized(returned.user)

\* C7: confirm_login_code returns ok=true only when its own remote sign-in
\* returned without an error; after any error of the remote sign-in it returns
\* ok=false with need_password=true or a non-empty error, and that call
\* attaches no listener and does not set the users table to connected.
C7_NoSwallowedFailure ==
    /\ [](returned.op \in ConfirmOps =>
            /\ returned.ret.ok => returned.rsp = "ok"
            /\ returned.rsp \notin {"ok", None} =>
                  /\ ~returned.ret.ok
                  /\ \/ returned.ret.need_password
                     \/ returned.ret.error \notin {None, EmptyMessage})
    /\ [][(returned'.op \in ConfirmOps /\ returned'.rsp # "ok") =>
             /\ ListenersUnchanged
             /\ users' = users]_vars

\* C8: when the remote network answers 'second factor required', the call
\* returns ok=false, need_password=true, and pending phone, pending token,
\* registered connection, users table and listeners are unchanged.
C8_NeedPasswordKeepsState ==
    [][returned'.rsp = "need_password" =>
          /\ returned'.ret = Ret(FALSE, TRUE, None)
          /\ UNCHANGED <<pending_phones, pending_code_hash, clients, users>>
          /\ ListenersUnchanged]_vars

\* C8 witness: a confirm_login_code was answered 'second factor required'.
C8_Witness ==
    /\ returned.op = "confirm_login_code"
    /\ returned.rsp = "need_password"
    /\ pending_code_hash[returned.user] # NoHash

\* The step in which the confirm_login_code call in slot t, made with a
\* password, returns from its sign_in.
PasswordSignInReturns(t) ==
    /\ tasks[t].op = "confirm_login_code"
    /\ tasks[t].code = None
    /\ tasks[t].pc = "sign_in"
    /\ tasks'[t].pc = "idle"

\* C9: 'second factor required' leaves the user in PasswordRequired; there a
\* call with a password is submitted to the remote network; with the correct
\* password it returns ok=true and the user is Authorized, unless the call
\* fails on the network; with a wrong password it returns ok=false and the
\* user stays in PasswordRequired with phone and token retained, so that the
\* correct password is accepted after any number of wrong ones.
C9_PasswordAfterNeedPassword ==
    /\ [](returned.rsp = "need_password" => PasswordRequired(returned.user))
    /\ [][\A t \in Tasks : \A u \in Users :
            (PasswordSignInReturns(t) /\ tasks[t].user = u /\ PasswordRequired(u)) =>
               /\ returned'.rsp \in {"ok", "wrong_password"} \cup GenericErrors
               /\ tasks[t].password = "good" =>
                     /\ returned'.rsp # "wrong_password"
                     /\ returned'.rsp = "ok" =>
                           /\ returned'.ret = Ret(TRUE, FALSE, None)
                           /\ Authorized(u)'
                           /\ conns'[clients'[u]].listeners >= 1
               /\ tasks[t].password = "bad" =>
                     /\ ~returned'.ret.ok
                     /\ PasswordRequired(u)'
                     /\ pending_phones' = pending_phones
                     /\ returned'.rsp = "wrong_password" =>
                           pending_code_hash' = pending_code_hash]_vars
    /\ [][\A u \in Users :
            ~(/\ PasswordRequired(u)
              /\ calls' = calls + 1
              /\ returned'.op = "confirm_password"
              /\ returned'.user = u)]_vars

\* C9 witness: the correct password was accepted right after a wrong one.
C9_Witness ==
    /\ returned.op = "confirm_password"
    /\ returned.ret.ok
    /\ returned.after.op = "confirm_password"
    /\ returned.after.rsp = "wrong_password"
    /\ Authorized(returned.user)

\* C10: when the remote network rejects the code as invalid, the call returns
\* ok=false with invalid_code and pending phone, pending token and registered
\* connection are unchanged; a confirm_login_code made right after it is
\* submitted to the remote network again.
C10_InvalidCodeKeepsState ==
    /\ [][returned'.rsp = "invalid" =>
             /\ returned'.ret = Ret(FALSE, FALSE, "invalid_code")
             /\ UNCHANGED <<pending_phones, pending_code_hash, clients, conns, users>>]_vars
    /\ []((/\ returned.op = "confirm_login_code"
           /\ returned.after.op = "confirm_login_code"
           /\ returned.after.rsp = "invalid") => returned.rsp # None)

\* C10 witness: the correct code was accepted right after an invalid one.
C10_Witness ==
    /\ returned.op = "confirm_login_code"
    /\ returned.ret.ok
    /\ returned.after.op = "confirm_login_code"
    /\ returned.after.rsp = "invalid"

\* C11: when the remote network reports the code as expired, the call returns
\* ok=false with code_expired and the pending token is cleared; a
\* confirm_login_code call (with a code or with a password) made directly
\* after it submits nothing to the remote network and fails with a
\* no-pending-login error.
C11_ExpiredBlocksConfirm ==
    /\ [][returned'.rsp = "expired" =>
             /\ returned'.ret = Ret(FALSE, FALSE, "code_expired")
             /\ pending_code_hash'[returned'.user] = NoHash]_vars
    /\ [](\A t \in Tasks :
             (tasks[t].op = "confirm_login_code" /\ tasks[t].after.rsp = "expired")
                => tasks[t].pc \notin {"reconnect", "sign_in"})
    /\ []((/\ returned.op \in {"confirm_login_code", "confirm_password"}
           /\ returned.after.rsp = "expired") =>
             /\ returned.rsp = None
             /\ returned.ret.error \in NoPendingLogin)

\* C12: after confirm_login_code returned code_expired the front end neither
\* stays in waiting_for_code nor sends a code request on its own: every
\* send_login_code call in flight was made by handle_phone_number, for a
\* phone number the user has just submitted.
C12_NoResendAfterExpired ==
    /\ [][\A u \in Users :
            (/\ returned'.user = u
             /\ returned'.op = "confirm_login_code"
             /\ returned'.ret.error = "code_expired")
            => (fsm'[u].state # "waiting_for_code" /\ fsm'[u].handler = None)]_vars
    /\ [](\A t \in Tasks :
            tasks[t].op = "send_login_code" =>
                fsm[tasks[t].user].handler = "handle_phone_number")

\* Nothing of the manager, the connections, the session files or the users
\* table changes.
StateUnchanged ==
    UNCHANGED <<clients, pending_phones, pending_code_hash, conns, issued, sessions, users>>

\* The errors of the three precondition checks of confirm_login_code: no
\* registered client, no stored phone, no stored token.
PreconditionErrors == NoPendingLogin \cup {"client_not_found"}

\* The step in which confirm_login_code is called with a code for user u: the
\* call either returns in that step or waits for the remote network.
ConfirmCodeCalled(u) ==
    /\ calls' = calls + 1
    /\ \/ returned'.op = "confirm_login_code" /\ returned'.user = u
       \/ \E t \in Tasks : /\ tasks[t].pc = "idle"
                           /\ tasks'[t].op = "confirm_login_code"
                           /\ tasks'[t].user = u
                           /\ tasks'[t].code # None

\* C13: confirm_login_code with a code for a user who has no stored phone or
\* no stored token returns at once, without a remote sign-in call, ok=false
\* with the error of the failed precondition check, and changes no state.
C13_NoPendingLoginRejected ==
    [][\A u \in Users :
          (/\ ConfirmCodeCalled(u)
           /\ pending_phones[u] = None \/ pending_code_hash[u] = NoHash)
          => /\ returned'.op = "confirm_login_code"
             /\ returned'.rsp = None
             /\ ~returned'.ret.ok
             /\ returned'.ret.error \in PreconditionErrors
             /\ StateUnchanged]_vars

\* C13 witness: a call with a code was rejected for the missing token while
\* the phone was still stored.
C13_Witness ==
    /\ returned.op = "confirm_login_code"
    /\ returned.ret = Ret(FALSE, FALSE, "no_code_hash")
    /\ pending_phones[returned.user] # None

\* C14: a password is submitted to the remote network only in state
\* PasswordRequired: every confirm_login_code call with a password that is
\* at its sign_in was made for a user whose registered connection has been
\* answered 'second factor required'.
C14_PasswordOnlyWhenRequired ==
    \A t \in Tasks :
        (/\ tasks[t].op = "confirm_login_code"
         /\ tasks[t].code = None
         /\ tasks[t].pc = "sign_in")
        => /\ conns[tasks[t].client].st = "pwd"
           /\ tasks[t].hash # NoHash

\* C15: is_user_connected returns true exactly when the user is Authorized
\* and the registered connection was open at the call: it returns false at
\* once for a user without a registered, open connection; otherwise it asks
\* whether the client is authorized and returns the answer, false in
\* CodeRequested and PasswordRequired; it returns false directly after a
\* disconnect_user that disconnected the user and directly after cleanup.
C15_IsUserConnected ==
    /\ [][\A u \in Users :
            (calls' = calls + 1 /\ returned'.op = "is_user_connected" /\ returned'.user = u)
            => /\ ~returned'.ret.ok
               /\ ~(Registered(u) /\ conns[clients[u]].open)]_vars
    /\ [][\A t \in Tasks : \A u \in Users :
            (/\ tasks[t].pc = "idle"
             /\ tasks'[t].op = "is_user_connected"
             /\ tasks'[t].user = u)
            => (Registered(u) /\ conns[clients[u]].open)]_vars
    /\ [][\A t \in Tasks : \A u \in Users :
            (/\ tasks[t].op = "is_user_connected"
             /\ tasks[t].user = u
             /\ tasks'[t].pc = "idle"
             /\ returned'.rsp = "answer")
            => returned'.ret.ok = Authorized(u)]_vars
    /\ []((/\ returned.op = "is_user_connected"
           /\ \/ returned.after.op = "cleanup"
              \/ returned.after.op = "disconnect_user" /\ returned.after.ok)
          => (~returned.ret.ok /\ returned.rsp = None))

\* C15 witness: is_user_connected returned true for an authorized user.
C15_Witness ==
    /\ returned.op = "is_user_connected"
    /\ returned.ret.ok
    /\ Authorized(returned.user)

\* C16: a connection carries a listener only once it is authorized, by a
\* successful sign-in or as a client resumed from an authorized session: a
\* connection that is not authorized (its user in CodeRequested or
\* PasswordRequired) has no listener, so none of its messages is handled.
C16_ListenerOnlyWhenAuthorized ==
    \A c \in ConnIds : conns[c].st # "auth" => conns[c].listeners = 0

\* C16 witness: the code was accepted, the second factor is awaited and the
\* registered connection has no listener.
C16_Witness ==
    \E u \in Users :
        /\ PasswordRequired(u)
        /\ returned.user = u /\ returned.ret.need_password
        /\ conns[clients[u]].listeners = 0

\* C17: start_monitoring returns true exactly when the user's session file
\* exists, the connection opened from it was made and is_user_authorized
\* answered that it is authorized; when it returns true the user's registered
\* connection is that authorized connection and carries the listener.
C17_StartMonitoring ==
    returned.op = "start_monitoring" =>
        /\ returned.ret.ok <=>
               /\ sessions[returned.user] # "none"
               /\ returned.rsp = "answer"
               /\ conns[clients[returned.user]].st = "auth"
        /\ returned.ret.ok =>
               /\ Authorized(returned.user)
               /\ conns[clients[returned.user]].listeners = 1

\* C17 witness: a start_monitoring call has returned true.
C17_Witness == returned.op = "start_monitoring" /\ returned.ret.ok

\* C18: a start_monitoring call that returns false (the session file is
\* missing, or the session it holds is not authorized, or the connection or
\* the authorization check failed) leaves the connection it created neither
\* registered for the user nor open.
C18_FailedResumeLeavesNothing ==
    [][\A t \in Tasks, u \in Users :
          ( /\ tasks[t].op = "start_monitoring" /\ tasks[t].user = u
            /\ tasks[t].client # NoClient
            /\ returned'.op = "start_monitoring" /\ returned'.user = u
            /\ ~returned'.ret.ok )
          => /\ clients'[u] # tasks[t].client
             /\ ~conns'[tasks[t].client].open]_vars

\* C19: disconnect_user is idempotent: called for a user with no registered
\* client (never connected, or already disconnected) it returns success and
\* changes no state; in particular a disconnect_user made directly after one
\* that succeeded returns the same value.
C19_DisconnectIdempotent ==
    [][\A u \in Users :
          (returned'.op = "disconnect_user" /\ returned'.user = u /\ ~Registered(u))
          => /\ returned'.ret.ok
             /\ StateUnchanged
             /\ (returned'.after.op = "disconnect_user"
                 => returned'.ret.ok = returned'.after.ok)]_vars

\* C20: when disconnect_user of an authorized user returns true, the
\* connection is closed, the user has no registered client, the users table
\* says not connected and the session file is deleted; a start_monitoring
\* made directly after it returns false.
C20_DisconnectForgetsSession ==
    [][\A u \in Users :
          /\ (Authorized(u) /\ returned'.op = "disconnect_user" /\ returned'.user = u
                /\ returned'.ret.ok)
             => /\ ~conns'[clients[u]].open
                /\ ~Registered(u)'
                /\ users'[u] # "connected"
                /\ sessions'[u] = "none"
          /\ (returned'.op = "start_monitoring" /\ returned'.user = u
                /\ returned'.after.op = "disconnect_user" /\ returned'.after.ok)
             => ~returned'.ret.ok]_vars

\* A confirm_login_code or disconnect_user call of user u is in flight.
ConfirmOrDisconnectInFlight(u) ==
    \E t \in Tasks : /\ tasks[t].pc # "idle" /\ tasks[t].user = u
                     /\ tasks[t].op \in {"confirm_login_code", "disconnect_user"}

\* C21: however a confirm_login_code and a disconnect_user of the same user
\* interleave, once both have returned the user is not recorded as connected
\* in the users table while disconnect_user has removed the user's
\* connection from self.clients.
C21_ConfirmDisconnectRace ==
    \A u \in Users :
        (~ConfirmOrDisconnectInFlight(u) /\ users[u] = "connected") => Registered(u)

\* The calls of the login handshake, start_monitoring and disconnect_user of
\* user u that have started and not yet returned.
CallsInFlight(u) ==
    {t \in Tasks : /\ tasks[t].pc # "idle" /\ tasks[t].user = u
                   /\ tasks[t].op \in {"send_login_code", "confirm_login_code",
                                       "start_monitoring", "disconnect_user"}}

\* C22: the calls send_login_code, confirm_login_code (with a code or a
\* password), start_monitoring and disconnect_user of one user exclude each
\* other: never are two of them for the same user started and not returned.
C22_OneCallPerUser ==
    \A u \in Users : Cardinality(CallsInFlight(u)) <= 1

\* The operations of the login handshake, start_monitoring and
\* disconnect_user, as `tasks` and `returned` name them.
UserOps ==
    ConfirmOps \cup {"send_login_code", "start_monitoring", "disconnect_user"}

\* This step is a step of one of these operations for user a: the call
\* starts, goes on to its next await, or returns.
StepOf(a) ==
    \/ returned'.user = a /\ returned'.op \in UserOps
    \/ \E t \in Tasks : /\ tasks'[t] # tasks[t]
                        /\ tasks'[t].user = a /\ tasks'[t].op \in UserOps

\* What the manager and the users table hold for user b: the pending phone,
\* the pending token, the registered client, the users row, and every
\* connection created for b (with its listeners).
StateOf(b) ==
    <<pending_phones[b], pending_code_hash[b], clients[b], users[b], sessions[b],
      [c \in {d \in ConnIds : conns[d].owner = b} |-> conns[c]]>>

\* C23: every step of send_login_code, confirm_login_code, start_monitoring
\* or disconnect_user for a user a leaves unchanged, for every other user b,
\* the pending phone, the pending token, the registered connection, the
\* listeners of b's connections and the users row, however the calls of the
\* two users interleave.
C23_OtherUsersUntouched ==
    [][\A a \in Users, b \in Users :
          (a # b /\ StepOf(a)) => StateOf(b)' = StateOf(b)]_vars

\* C23 witness: a call of u2 has just returned with u2's login state set up
\* (a pending token, or authorized), while u1 is authorized with a listener
\* on its registered connection and recorded as connected.
C23_Witness ==
    /\ returned.user = "u2" /\ returned.ret.ok
    /\ Registered("u2")
    /\ Authorized("u1") /\ conns[clients["u1"]].listeners = 1
    /\ users["u1"] = "connected"

\* The connections registered in self.clients.
RegisteredConns == {clients[u] : u \in {x \in Users : Registered(x)}}

\* The elements of a sequence.
Range(seq) == {seq[i] : i \in 1..Len(seq)}

\* C24: cleanup goes through every connection that is registered when it
\* starts; whether the disconnect of one succeeds or fails, it goes on to
\* the next one, and a disconnect either closes the connection or leaves it
\* as it was; when it returns it has raised nothing and self.clients is empty.
C24_CleanupClosesAll ==
    [][\A t \in Tasks :
          /\ (tasks[t].pc = "idle" /\ tasks'[t].op = "cleanup")
             => Range(tasks'[t].todo) = RegisteredConns
          /\ (tasks[t].op = "cleanup" /\ tasks'[t].todo # tasks[t].todo)
             => /\ tasks[t].todo # << >>
                /\ \/ ~conns'[Head(tasks[t].todo)].open
                   \/ conns'[Head(tasks[t].todo)] = conns[Head(tasks[t].todo)]
                /\ returned'.rsp = "ok" => ~conns'[Head(tasks[t].todo)].open
                /\ IF Tail(tasks[t].todo) # << >>
                   THEN tasks'[t].op = "cleanup" /\ tasks'[t].todo = Tail(tasks[t].todo)
                   ELSE returned'.op = "cleanup" /\ tasks'[t].pc = "idle"
          /\ returned'.op = "cleanup"
             => /\ returned'.ret.ok /\ returned'.ret.error = None
                /\ \A u \in Users : ~Registered(u)']_vars

\* C24 witness: cleanup has returned after going through the connections
\* of two users who had both been sent a code: the disconnect of the first
\* failed (it is still open), that of the last succeeded.
C24_Witness ==
    /\ returned.op = "cleanup" /\ returned.ret.ok /\ returned.rsp = "ok"
    /\ \A t \in Tasks : tasks[t].pc = "idle"
    /\ \A u \in Users : ~Registered(u) /\ pending_code_hash[u] # NoHash
    /\ \E c \in ConnIds, d \in ConnIds :
          /\ conns[c].owner # conns[d].owner
          /\ conns[c].open /\ ~conns[d].open

\* No call is in flight.
AllReturned == \A t \in Tasks : tasks[t].pc = "idle"

\* C25: when cleanup has run while a send_login_code, confirm_login_code or
\* start_monitoring call was suspended at a network call, then once that
\* call has returned too (no further call having been made since cleanup
\* returned) no connection is open, registered or not.
C25_ShutdownDuringHandshake ==
    [][\A t \in Tasks :
          ( /\ tasks[t].op \in {"send_login_code", "confirm_login_code", "start_monitoring"}
            /\ tasks[t].shutdown = calls /\ calls' = calls
            /\ tasks'[t].pc = "idle"
            /\ AllReturned' )
          => \A c \in ConnIds : ~conns'[c].open]_vars

\* C26: within one send_login_code call, once the remote network has
\* answered a code request with FloodWaitError, no further code request is
\* sent: no call is waiting for a second send_code_request after a flood
\* answer to its first.
C26_NoRetryAfterFlood ==
    \A t \in Tasks :
        (tasks[t].op = "send_login_code" /\ tasks[t].pc = "send2") => tasks[t].rsp # "flood"

\* C27: when send_login_code fails because of FloodWaitError, what it
\* returns carries the wait (an error value, not None) and so differs from
\* what it returns for PhoneNumberInvalidError.
C27_FloodWaitSurfaced ==
    (returned.op = "send_login_code" /\ returned.rsp = "flood")
    => /\ returned.ret.error # None
       /\ returned.ret # Ret(FALSE, FALSE, None)

\* C28: send_login_code returns true exactly when the remote network
\* accepted a code request, and then the stored phone is the one the token
\* it stored was issued for; when it returns false the user has no pending
\* phone and no pending token, so that a following confirm_login_code fails
\* with a no-pending-login error.
C28_SendLoginCodeOutcome ==
    /\ returned.op = "send_login_code"
       => /\ returned.ret.ok <=> returned.rsp = "ok"
          /\ returned.ret.ok
             => /\ pending_code_hash[returned.user] = returned.hash
                /\ returned.hash # NoHash
                /\ pending_phones[returned.user] = issued[returned.hash]
          /\ ~returned.ret.ok
             => /\ pending_phones[returned.user] = None
                /\ pending_code_hash[returned.user] = NoHash
    /\ (returned.op = "confirm_login_code"
          /\ returned.after.op = "send_login_code" /\ ~returned.after.ok)
       => returned.ret.error \in PreconditionErrors

\* The vocabulary terms that occur in a text, both taken in lower case.
Matches(text) ==
    {k \in 1..Len(meeting_keywords) :
        \E i \in 1..Len(text) :
            /\ i + Len(meeting_keywords[k]) - 1 <= Len(text)
            /\ \A j \in 1..Len(meeting_keywords[k]) :
                  LowerChar(text[i + j - 1]) = LowerChar(meeting_keywords[k][j])}

\* handle_message has just returned, get_chat having answered.
DetectorRan ==
    /\ handled.user # None
    /\ "get_chat" \notin handled.failed

\* C29: the detected keywords are exactly the vocabulary terms that occur,
\* in lower case, in the lower-cased text, each once and in the order of the
\* vocabulary (so the list is a function of the text); a text with none of
\* the terms gives the empty list.
C29_KeywordDetector ==
    DetectorRan =>
        /\ {handled.detected[i] : i \in 1..Len(handled.detected)}
              = {meeting_keywords[k] : k \in Matches(handled.text)}
        /\ Len(handled.detected) = Cardinality(Matches(handled.text))
        /\ \A i \in 1..Len(handled.detected), j \in 1..Len(handled.detected) :
              i < j => \E k \in Matches(handled.text), l \in Matches(handled.text) :
                          /\ k < l
                          /\ handled.detected[i] = meeting_keywords[k]
                          /\ handled.detected[j] = meeting_keywords[l]
        /\ Matches(handled.text) = {} => handled.detected = << >>

\* C29 witness: in 'Aba' the second term occurs first, in capitals; the
\* detected keywords are both terms, in vocabulary order.
C29_Witness ==
    /\ handled.text = <<"A", "b", "a">>
    /\ handled.detected = << <<"b", "a">>, <<"a", "b">> >>

\* The vocabulary terms occur in the text of the message just handled, and no
\* collaborator (get_chat, the INSERT, send_message) failed.
MeetingMessageHandled ==
    /\ handled.user # None
    /\ handled.failed = {}
    /\ Matches(handled.text) # {}

\* C30: for every incoming message of an authorized user, a row is inserted
\* into detected_messages and a notification is sent only for a message
\* whose text contains a vocabulary term, and then for that message (user,
\* conversation, text); and when such a message has been handled (no
\* collaborator failing) its row has been inserted and its notification
\* sent, whichever entry point the program was started from.
C30_DetectedMessageNotified ==
    [][/\ detected_messages' # detected_messages
          => /\ Matches(event.text) # {}
             /\ \E row \in {[user_id |-> event.user, chat_id |-> event.chat,
                             message_text |-> event.text,
                             detected_keywords |-> Join(DetectKeywords(event.text))]} :
                   detected_messages' = Append(detected_messages, row)
       /\ notifications' # notifications
          => /\ Matches(event.text) # {}
             /\ notifications' =
                   Append(notifications, [user_id |-> event.user, chat_id |-> event.chat,
                                          message_text |-> event.text])
       /\ MeetingMessageHandled'
          => /\ \E i \in 1..Len(detected_messages') :
                   /\ detected_messages'[i].user_id = handled'.user
                   /\ detected_messages'[i].chat_id = handled'.chat
                   /\ detected_messages'[i].message_text = handled'.text
             /\ \E i \in 1..Len(notifications') :
                   notifications'[i] = [user_id |-> handled'.user, chat_id |-> handled'.chat,
                                        message_text |-> handled'.text]]_vars

\* C31: the handler of a message is never suspended on the notification call
\* (nor on the persistence call): it does not wait for bot.send_message to
\* complete, so a send that never completes leaves no handler in flight.
C31_HandlerNeverWaits ==
    event.pc # "notify"

\* C32: every send_login_code, confirm_login_code (code or password),
\* start_monitoring and disconnect_user call returns to its caller in the end,
\* also when the remote network never answers one of its network calls.
C32_EveryCallReturns ==
    \A t \in Tasks : (tasks[t].pc # "idle") ~> (tasks[t].pc = "idle")

\* C33: a password that the remote network rejects is reported with the
\* error kind wrong_password (which is neither invalid_code nor
\* code_expired), and the error kind of an exception does not depend on the
\* words of its message: all untyped exceptions with a message get the same
\* kind.
C33_WrongPasswordKind ==
    /\ (returned.op = "confirm_password" /\ returned.rsp = "wrong_password")
       => returned.ret.error = "wrong_password"
    /\ (returned.op \in ConfirmOps /\ returned.rsp \in GenericErrors \ {"err_empty"})
       => \A rsp \in GenericErrors \ {"err_empty"} : ClassifyError(rsp) = returned.ret.error

\* The call in slot t starts in this step.
Starts(t, op) == tasks[t].pc = "idle" /\ calls' = calls + 1 /\ returned'.op # op
                    /\ tasks'[t].op = op

\* The pending phone and token are left as they are.
PendingUnchanged == UNCHANGED <<pending_phones, pending_code_hash>>

C35_ConnectedMeansListening ==
    \A u \in Users :
        (~Busy(u) /\ users[u] = "connected")
        => /\ Registered(u)
           /\ conns[clients[u]].open
           /\ conns[clients[u]].listeners >= 1

\* C36: saving a user who already has a row (add_user: a step that changes
\* the users table while no call of the manager starts, goes on or returns)
\* leaves the recorded connection status of that user as it was.
C36_AddUserKeepsStatus ==
    [][\A u \in Users :
          (users[u] # "absent" /\ UNCHANGED <<clients, conns, tasks, calls>>)
          => users'[u] = users[u]]_vars

\* C37: in every state, also while a send_login_code and a
\* confirm_login_code of the same user are both in flight, a user with a
\* pending token has a pending phone number.
C37_TokenImpliesPhone ==
    \A u \in Users : pending_code_hash[u] # NoHash => pending_phones[u] # None

\* C38: whenever the front end's state of a user is waiting_for_code and
\* neither a handler nor a manager call of that user is in flight, the
\* manager holds both a pending phone and a pending token for the user.
C38_WaitingForCodeHasPendingLogin ==
    \A u \in Users :
        (fsm[u].state = "waiting_for_code" /\ fsm[u].handler = None /\ ~Busy(u))
        => /\ pending_phones[u] # None
           /\ pending_code_hash[u] # NoHash

\* C39: after a disconnect_user of a user has returned True, no
\* confirm_login_code of that user, with a code or with a password, returns
\* ok until a later send_login_code of the user has returned True; a
\* send_login_code that fails in between changes nothing about that.
C39_NoConfirmAfterDisconnect ==
    (returned.op \in {"confirm_login_code", "confirm_password"}
       /\ returned.user \in disconnected)
    => ~returned.ret.ok

\* C40: a user recorded as connected is never moved to waiting_for_phone,
\* by /connect or by the 'connect' button, and no send_login_code starts for
\* a user recorded as connected.
C40_ConnectedNeverAsked ==
    [][\A u \in Users :
          users[u] = "connected"
          => /\ fsm[u].state # "waiting_for_phone" => fsm'[u].state # "waiting_for_phone"
             /\ \A t \in Tasks : ~(Starts(t, "send_login_code") /\ tasks'[t].user = u)]_vars

====
